---- MODULE Spec2Model ----
(***************************************************************************)
(* A model of src/mortgage/fixed_rate.py: the class FixedRateMortgage, its *)
(* constructor, is_paid(), get_data() and the amortization pass            *)
(* _amortize().                                                            *)
(*                                                                         *)
(* Numbers.  The program computes in Python floats.  The model computes in *)
(* exact rationals <<numerator, denominator>> kept in lowest terms with a  *)
(* positive denominator, so every property below is a property of the      *)
(* program's arithmetic over the reals; floating-point rounding is outside *)
(* the model.                                                              *)
(***************************************************************************)
EXTENDS Integers, Sequences, FiniteSets, TLC

VARIABLES
    phase,        \* "new": __init__ not yet run; "ready": it returned; "failed": it raised
    args,         \* the arguments of the constructor call
    loan_amount,  \* self.loan_amount
    balance,      \* self.balance
    extra_payments, \* self.extra_payments
    _data,        \* self._data: None or Some(frame)
    returned,     \* what the last get_data() returned: None before the first call
    paid,         \* what the last is_paid() returned: None before the first call
    passes,       \* how many times _amortize has run
    calls         \* how many times get_data() was called

vars == <<phase, args, loan_amount, balance, extra_payments, _data, returned, paid,
          passes, calls>>

----------------------------------------------------------------------------
(* Bounds of the model *)

MaxTerm == 3
MaxCalls == 2

----------------------------------------------------------------------------
(* Optional values: Python's None and a present value *)

None == <<>>
Some(x) == <<x>>
Get(o) == o[1]

----------------------------------------------------------------------------
(* Exact rational arithmetic *)

Abs(x) == IF x < 0 THEN -x ELSE x

RECURSIVE GCD(_, _)
GCD(a, b) == IF b = 0 THEN a ELSE GCD(b, a % b)

LCM(a, b) == (a \div GCD(a, b)) * b

\* the value a division by zero leaves in a numpy array (inf or nan)
NonFinite == <<0, 0>>

Rat(n, d) ==
    IF d = 0 THEN NonFinite
    ELSE LET s == IF d < 0 THEN -1 ELSE 1
             g == GCD(Abs(n), Abs(d))
         IN  <<(s * n) \div g, (s * d) \div g>>

Zero == <<0, 1>>
One == <<1, 1>>
FromInt(i) == <<i, 1>>

IsFinite(a) == a[2] # 0

RAdd(a, b) ==
    IF ~IsFinite(a) \/ ~IsFinite(b) THEN NonFinite
    ELSE LET l == LCM(a[2], b[2])
         IN  Rat(a[1] * (l \div a[2]) + b[1] * (l \div b[2]), l)
RNeg(a) == <<-a[1], a[2]>>
RSub(a, b) == RAdd(a, RNeg(b))
RMul(a, b) ==
    IF ~IsFinite(a) \/ ~IsFinite(b) THEN NonFinite
    ELSE LET g1 == GCD(Abs(a[1]), b[2])
             g2 == GCD(Abs(b[1]), a[2])
         IN  Rat((a[1] \div g1) * (b[1] \div g2), (a[2] \div g2) * (b[2] \div g1))
RDiv(a, b) ==
    IF ~IsFinite(a) \/ ~IsFinite(b) \/ b[1] = 0 THEN NonFinite
    ELSE RMul(a, Rat(b[2], b[1]))
RLt(a, b) ==
    LET l == LCM(a[2], b[2]) IN a[1] * (l \div a[2]) < b[1] * (l \div b[2])
RLe(a, b) == ~RLt(b, a)

\* Python's min(a, b): b when b < a, else a
RMin(a, b) == IF RLt(b, a) THEN b ELSE a

RECURSIVE RPow(_, _)
RPow(a, n) == IF n = 0 THEN One ELSE RMul(a, RPow(a, n - 1))

----------------------------------------------------------------------------
(* The constructor calls the model explores *)

HomePrices == {FromInt(1), FromInt(2)}
DownPayments == {Zero, <<1, 2>>, <<3, 2>>}
InterestRates == {Zero, FromInt(12), FromInt(-6)}
ExtraValues == {Zero, <<63, 128>>, FromInt(-1)}
Terms == (-1) .. MaxTerm
ExtraSequences == UNION {[1 .. n -> ExtraValues] : n \in 0 .. MaxTerm}
ExtraArguments == {None} \cup {Some(s) : s \in ExtraSequences}

ConstructorCalls ==
    [home_price : HomePrices, down_payment_pct : DownPayments,
     loan_term_months : Terms, interest_rate : InterestRates,
     extra_payments : ExtraArguments]

Init ==
    /\ phase = "new"
    /\ args \in ConstructorCalls
    /\ loan_amount = Zero
    /\ balance = Zero
    /\ extra_payments = <<>>
    /\ _data = None
    /\ returned = None
    /\ paid = None
    /\ passes = 0
    /\ calls = 0

----------------------------------------------------------------------------
(* __init__ *)

\* np.zeros(n): an array of n zeros; a negative n raises ValueError
ZerosRaises(n) == n < 0
Zeros(n) == [i \in 1 .. n |-> Zero]

\* home_price * (1 - down_payment_pct)
LoanAmount(home_price, down_payment_pct) ==
    RMul(home_price, RSub(One, down_payment_pct))

\* the assert with <= in place of ==
LengthAtMost(eps, term) == Len(eps) <= term

\* the assert of __init__: len(extra_payments) == loan_term_months
LengthOk(eps, term) == Len(eps) = term

Construct ==
    /\ phase = "new"
    /\ LET term == args.loan_term_months
           omitted == args.extra_payments = None
           raises == omitted /\ ZerosRaises(term)
           eps == IF omitted THEN Zeros(term) ELSE Get(args.extra_payments)
       IN  IF raises \/ ~LengthOk(eps, term)
           THEN /\ phase' = "failed"
                /\ UNCHANGED <<loan_amount, balance, extra_payments>>
           ELSE /\ phase' = "ready"
                /\ loan_amount' = LoanAmount(args.home_price, args.down_payment_pct)
                /\ balance' = LoanAmount(args.home_price, args.down_payment_pct)
                /\ extra_payments' = eps
    /\ UNCHANGED <<args, _data, returned, paid, passes, calls>>

----------------------------------------------------------------------------
(* is_paid *)

Tolerance == <<1, 100>>

\* the test with an exact zero in place of the tolerance
IsPaidOnlyAtZero(bal) == RLe(bal, Zero)

\* self.balance < 0.01, for the balance bal
is_paid(bal) == RLt(bal, Tolerance)

IsPaidCall ==
    /\ phase = "ready"
    /\ paid' = Some(is_paid(balance))
    /\ UNCHANGED <<phase, args, loan_amount, balance, extra_payments, _data,
                   returned, passes, calls>>

----------------------------------------------------------------------------
(* _amortize *)

MonthsPerYear == 12

\* self.interest_rate is the constructor's argument, never reassigned
MonthlyRate == RDiv(args.interest_rate, FromInt(MonthsPerYear))

\* np.pmt(rate, nper, pv) with fv = 0 and when = 'end':
\*   temp = (1 + rate) ** nper
\*   fact = nper where rate == 0, else (temp - 1) / rate
\*   -(pv * temp) / fact
Pmt(rate, nper, pv) ==
    LET temp == RPow(RAdd(One, rate), nper)
        fact == IF rate = Zero THEN FromInt(nper)
                ELSE RDiv(RSub(temp, One), rate)
    IN  RNeg(RDiv(RMul(pv, temp), fact))

\* payment = -1 * np.pmt(self.interest_rate/12, self.loan_term_months, self.loan_amount)
StandardPayment ==
    RMul(FromInt(-1), Pmt(MonthlyRate, args.loan_term_months, loan_amount))

\* interest = (self.interest_rate/12) * self.balance
Interest(bal) == RMul(MonthlyRate, bal)

\* the cap taken on the balance alone, the interest forgotten
CapPaymentNoInterest(payment, bal, interest) == RMin(payment, bal)

\* payment = min(payment, self.balance + interest)
CapPayment(payment, bal, interest) == RMin(payment, RAdd(bal, interest))

\* the subtraction with its operands swapped
PrincipalSwapped(payment, interest) == RSub(interest, payment)

\* principal = payment - interest
Principal(payment, interest) == RSub(payment, interest)

\* the extra payment taken as given, without the min
ExtraPaymentUnclamped(month, remaining) == extra_payments[month + 1]

\* extra_payment = min(self.extra_payments[month], remaining_loan_balance)
ExtraPayment(month, remaining) == RMin(extra_payments[month + 1], remaining)

\* self.balance = self.balance - principal - extra_payment
NewBalance(bal, principal, extra) == RSub(RSub(bal, principal), extra)

\* the five self._data.at[month, ...] = ... assignments
SetRow(frame, month, principal, interest, extra, bal) ==
    [frame EXCEPT ![month + 1] =
        [@ EXCEPT !.month = month, !.principal = principal, !.interest = interest,
                  !.extra_payment = extra, !.balance = bal]]

\* a paid month's row with 0 written as its balance
PaidRowZeroBalance(frame, month, bal) == SetRow(frame, month, Zero, Zero, Zero, Zero)

\* the row the loop writes in a month that starts with the loan paid
PaidRow(frame, month, bal) == SetRow(frame, month, Zero, Zero, Zero, bal)

\* the while loop, from `month` on, with the local `payment`, self.balance = bal
\* and self._data = frame; its result is the balance and the frame it leaves
RECURSIVE AmortizeLoop(_, _, _, _)
AmortizeLoop(month, payment, bal, frame) ==
    IF ~(month < args.loan_term_months)
    THEN [balance |-> bal, frame |-> frame]
    ELSE IF ~is_paid(bal)
         THEN LET interest == Interest(bal)
                  capped == CapPayment(payment, bal, interest)
                  principal == Principal(capped, interest)
                  remaining_loan_balance == RSub(bal, principal)
                  extra_payment == ExtraPayment(month, remaining_loan_balance)
                  new_balance == NewBalance(bal, principal, extra_payment)
              IN  AmortizeLoop(month + 1, capped, new_balance,
                      SetRow(frame, month, principal, interest, extra_payment,
                             new_balance))
         ELSE AmortizeLoop(month + 1, Zero, bal, PaidRow(frame, month, bal))

Amortize(bal, frame) == AmortizeLoop(0, StandardPayment, bal, frame)

----------------------------------------------------------------------------
(* get_data *)

\* the frame built over range(0, n + 1)
NewFrameOffByOne(n) ==
    [i \in 1 .. n + 1 |->
        [month |-> i - 1, principal |-> Zero, interest |-> Zero,
         extra_payment |-> Zero, balance |-> Zero, total_principal |-> Zero,
         total_interest |-> Zero, total_extra_payment |-> Zero]]

\* pd.DataFrame({'month': range(0, n), 'principal': 0.0, ...})
NewFrame(n) ==
    [i \in 1 .. n |->
        [month |-> i - 1, principal |-> Zero, interest |-> Zero,
         extra_payment |-> Zero, balance |-> Zero, total_principal |-> Zero,
         total_interest |-> Zero, total_extra_payment |-> Zero]]

Column(frame, name) == [i \in 1 .. Len(frame) |-> frame[i][name]]

\* the sum of the first i values of a column
RECURSIVE SumTo(_, _)
SumTo(column, i) == IF i = 0 THEN Zero ELSE RAdd(SumTo(column, i - 1), column[i])

\* the sums of the windows that end one row earlier
ExpandingSumShifted(column) == [i \in 1 .. Len(column) |-> SumTo(column, i - 1)]

\* column.expanding(min_periods=1).sum(): the sum of each growing window
ExpandingSum(column) == [i \in 1 .. Len(column) |-> SumTo(column, i)]

\* the three total_... assignments after the pass
WithTotals(frame) ==
    LET tp == ExpandingSum(Column(frame, "principal"))
        te == ExpandingSum(Column(frame, "extra_payment"))
        ti == ExpandingSum(Column(frame, "interest"))
    IN  [i \in 1 .. Len(frame) |->
            [frame[i] EXCEPT !.total_principal = tp[i],
                             !.total_extra_payment = te[i],
                             !.total_interest = ti[i]]]

\* get_data without the test of self._data: every call runs the pass
GetDataRecompute ==
    /\ phase = "ready"
    /\ calls < MaxCalls
    /\ calls' = calls + 1
    /\ LET pass == Amortize(balance, NewFrame(args.loan_term_months))
           frame == WithTotals(pass.frame)
       IN  /\ _data' = Some(frame)
           /\ balance' = pass.balance
           /\ passes' = passes + 1
           /\ returned' = Some(frame)
    /\ UNCHANGED <<phase, args, loan_amount, extra_payments, paid>>

GetData ==
    /\ phase = "ready"
    /\ calls < MaxCalls
    /\ calls' = calls + 1
    /\ IF _data # None
       THEN /\ returned' = _data
            /\ UNCHANGED <<_data, balance, passes>>
       ELSE LET pass == Amortize(balance, NewFrame(args.loan_term_months))
                frame == WithTotals(pass.frame)
            IN  /\ _data' = Some(frame)
                /\ balance' = pass.balance
                /\ passes' = passes + 1
                /\ returned' = Some(frame)
    /\ UNCHANGED <<phase, args, loan_amount, extra_payments, paid>>

----------------------------------------------------------------------------

Next == Construct \/ IsPaidCall \/ GetData

Spec == Init /\ [][Next]_vars

----------------------------------------------------------------------------
(* The schedule, as the properties below read it *)

Computed == phase = "ready" /\ _data # None
Rows == Get(_data)
Months == 1 .. Len(Rows)

\* self.balance as month i (row i, counted from 1) begins
BalanceBefore(i) == IF i = 1 THEN loan_amount ELSE Rows[i - 1].balance

PaidBefore(i) == RLt(BalanceBefore(i), Tolerance)

IsPaidOffRow(r) ==
    r.interest = Zero /\ r.principal = Zero /\ r.extra_payment = Zero

NonNegativeExtras == \A i \in 1 .. Len(extra_payments) : RLe(Zero, extra_payments[i])
NoExtras == \A i \in 1 .. Len(extra_payments) : extra_payments[i] = Zero

----------------------------------------------------------------------------
(* C1 *)

\* C1: with a loan amount > 0, an annual rate >= 0 and no negative extra
\* payment, every row's balance is >= 0 and is <= the balance before it (the
\* loan amount for row 0, the previous row's balance otherwise).
BalanceMonotonicity ==
    (Computed /\ RLt(Zero, loan_amount) /\ RLe(Zero, args.interest_rate)
        /\ NonNegativeExtras)
    => \A i \in Months :
           /\ RLe(Zero, Rows[i].balance)
           /\ RLe(Rows[i].balance, BalanceBefore(i))

\* a schedule under C1's precondition with interest, an extra payment, and a
\* balance that falls strictly in two consecutive months
BalanceMonotonicityWitness ==
    /\ Computed /\ RLt(Zero, loan_amount) /\ RLt(Zero, args.interest_rate)
    /\ NonNegativeExtras
    /\ Len(Rows) >= 2
    /\ RLt(Zero, Rows[1].extra_payment)
    /\ RLt(Rows[1].balance, loan_amount)
    /\ RLt(Rows[2].balance, Rows[1].balance)

----------------------------------------------------------------------------
(* C2 *)

\* C2: once a row records a balance < 0.01, every later row has interest =
\* principal = extra payment = 0 and the same balance as that row.
PayoffStability ==
    Computed =>
        \A k \in Months : \A j \in Months :
            (k < j /\ RLt(Rows[k].balance, Tolerance))
            => (IsPaidOffRow(Rows[j]) /\ Rows[j].balance = Rows[k].balance)

\* a row with a balance < 0.01 followed by a month whose requested extra
\* payment is not 0
PayoffStabilityWitness ==
    /\ Computed
    /\ \E k \in Months : \E j \in Months :
           /\ k < j
           /\ ~PaidBefore(k)
           /\ RLt(Rows[k].balance, Tolerance)
           /\ extra_payments[j] # Zero

----------------------------------------------------------------------------
(* C3 *)

\* C3: every step taken once the schedule is cached leaves the cached
\* schedule, the balance and the number of amortization passes unchanged, and
\* what get_data() returned is the cached schedule; the step that computes the
\* schedule returns what it caches.
Idempotence ==
    [][/\ _data # None =>
            /\ _data' = _data
            /\ returned' = _data
            /\ balance' = balance
            /\ passes' = passes
       /\ _data' # None => returned' = _data']_vars

\* a second get_data() has returned, after a pass that changed the balance
IdempotenceWitness ==
    /\ Computed
    /\ calls >= 2
    /\ passes = 1
    /\ balance # loan_amount
    /\ Len(Rows) >= 2
    /\ ~PaidBefore(2)
    /\ returned = _data

----------------------------------------------------------------------------
(* C4 *)

PreviousTotal(i, name) == IF i = 1 THEN Zero ELSE Rows[i - 1][name]

\* C4: every row's running totals are the previous row's totals (0 before row
\* 0) plus the row's own principal, interest and extra payment.
RunningTotals ==
    Computed =>
        \A i \in Months :
            /\ Rows[i].total_principal
                  = RAdd(PreviousTotal(i, "total_principal"), Rows[i].principal)
            /\ Rows[i].total_interest
                  = RAdd(PreviousTotal(i, "total_interest"), Rows[i].interest)
            /\ Rows[i].total_extra_payment
                  = RAdd(PreviousTotal(i, "total_extra_payment"), Rows[i].extra_payment)

\* two months with principal, interest and an extra payment, then a row
\* emitted after payoff
RunningTotalsWitness ==
    /\ Computed
    /\ Len(Rows) >= 3
    /\ \A i \in 1 .. 2 :
           /\ Rows[i].principal # Zero
           /\ Rows[i].interest # Zero
           /\ Rows[i].extra_payment # Zero
    /\ PaidBefore(3)
    /\ Rows[3].total_principal = RAdd(Rows[1].principal, Rows[2].principal)

----------------------------------------------------------------------------
(* C5 *)

RemainingAfterScheduled(m) == RSub(BalanceBefore(m), Rows[m].principal)

\* C5: in every month that starts with the loan not paid, the recorded extra
\* payment is min(extra_payments[m], balance before - principal) and the
\* row's balance is >= 0; when extra_payments[m] exceeds that remainder the
\* row's balance is 0 and every later row is a paid-off row with balance 0.
ExtraPaymentClamp ==
    Computed =>
        \A m \in Months :
            ~PaidBefore(m) =>
                /\ Rows[m].extra_payment
                      = RMin(extra_payments[m], RemainingAfterScheduled(m))
                /\ RLe(Zero, Rows[m].balance)
                /\ RLt(RemainingAfterScheduled(m), extra_payments[m]) =>
                      /\ Rows[m].balance = Zero
                      /\ \A j \in Months :
                             j > m => (IsPaidOffRow(Rows[j]) /\ Rows[j].balance = Zero)

\* a month whose requested extra payment exceeds a positive remainder,
\* followed by a month that requests an extra payment too
ExtraPaymentClampWitness ==
    /\ Computed
    /\ \E m \in Months : \E j \in Months :
           /\ ~PaidBefore(m)
           /\ RLt(Zero, RemainingAfterScheduled(m))
           /\ RLt(RemainingAfterScheduled(m), extra_payments[m])
           /\ j > m
           /\ RLt(Zero, extra_payments[j])

----------------------------------------------------------------------------
(* C6 *)

Supplied == args.extra_payments # None
SuppliedLengthDiffers ==
    Supplied /\ Len(Get(args.extra_payments)) # args.loan_term_months

NoScheduleFromFailure == phase = "failed" => (_data = None /\ returned = None)

----------------------------------------------------------------------------
(* C7 *)

\* C7: with every extra payment 0, a term >= 1 and an annual rate >= 0, the
\* last row's balance is < 0.01, and so is the balance the pass leaves.
NoExtraPaymentBaseline ==
    (Computed /\ NoExtras /\ args.loan_term_months >= 1
        /\ RLe(Zero, args.interest_rate))
    => /\ RLt(Rows[Len(Rows)].balance, Tolerance)
       /\ is_paid(balance)

\* a loan at a positive rate, without extra payments, that is paid by the last
\* scheduled payment and not before, and is_paid() has answered true
NoExtraPaymentBaselineWitness ==
    /\ Computed /\ NoExtras
    /\ Len(Rows) >= 2
    /\ RLt(Zero, args.interest_rate)
    /\ ~PaidBefore(Len(Rows))
    /\ Rows[Len(Rows)].balance = Zero
    /\ paid = Some(TRUE)

----------------------------------------------------------------------------
(* C8 *)

----------------------------------------------------------------------------
(* C9 *)

\* C9, as stated, on loans of a positive amount: every row of a month that
\* starts with the loan paid records a balance of exactly 0.
PaidRowsRecordZero ==
    (Computed /\ RLt(Zero, loan_amount))
    => \A i \in Months : PaidBefore(i) => Rows[i].balance = Zero

\* C9, amended: every row of a month that starts with the loan paid records
\* the balance the month started with, which is < 0.01 and need not be 0.
PaidRowsKeepBalance ==
    Computed =>
        \A i \in Months :
            PaidBefore(i) =>
                /\ Rows[i].balance = BalanceBefore(i)
                /\ RLt(Rows[i].balance, Tolerance)
                /\ IsPaidOffRow(Rows[i])

\* a paid month that follows a month in which an extra payment left a residue
\* strictly between 0 and 0.01
PaidRowsKeepBalanceWitness ==
    /\ Computed
    /\ RLt(Zero, loan_amount)
    /\ \E i \in Months :
           /\ i > 1
           /\ ~PaidBefore(i - 1)
           /\ PaidBefore(i)
           /\ RLt(Zero, Rows[i - 1].extra_payment)
           /\ RLt(Zero, Rows[i].balance)

----------------------------------------------------------------------------
(* C10 *)

\* the loop with the standard payment P used unchanged in every month
RECURSIVE ConstantPaymentLoop(_, _, _, _)
ConstantPaymentLoop(month, P, bal, frame) ==
    IF ~(month < args.loan_term_months)
    THEN frame
    ELSE IF ~RLt(bal, Tolerance)
         THEN LET interest == RMul(MonthlyRate, bal)
                  payment == RMin(P, RAdd(bal, interest))
                  principal == RSub(payment, interest)
                  remaining == RSub(bal, principal)
                  extra == RMin(extra_payments[month + 1], remaining)
                  new_balance == RSub(remaining, extra)
              IN  ConstantPaymentLoop(month + 1, P, new_balance,
                      SetRow(frame, month, principal, interest, extra, new_balance))
         ELSE ConstantPaymentLoop(month + 1, P, bal,
                  SetRow(frame, month, Zero, Zero, Zero, bal))

ConstantPaymentRows ==
    WithTotals(ConstantPaymentLoop(0, StandardPayment, loan_amount,
                                   NewFrame(args.loan_term_months)))

\* C10: the schedule is the one the loop with the constant standard payment
\* produces, for every extra-payment sequence the constructor accepts.
SameRowsAsConstantPayment == Computed => Rows = ConstantPaymentRows

====
